---- MODULE Spec2Model ----
(***************************************************************************)
(* Model of libraclient.client (src/libraclient/client.go): the ledger     *)
(* state kept behind the RWMutex, the validated RPC call path and the      *)
(* WaitForTransaction polling loop, run by a fixed set of goroutines.      *)
(***************************************************************************)
EXTENDS Integers, Sequences, FiniteSets

\* ------------------------------------------------------------------------
\* Bounds of the model
\* ------------------------------------------------------------------------
\* ledger timestamps offered by the server: 0 .. MaxSec whole seconds, in usec
MaxSec == 1
\* ledger versions offered by the server: 0 .. MaxVersion
MaxVersion == 1
\* the long timeout is MaxPolls polling steps
MaxPolls == 2

\* ------------------------------------------------------------------------
\* uint64 arithmetic of `expirationTimeSec*1_000_000` (client.go:109).
\* A uint64 is four 16-bit limbs, least significant first, so that the
\* product and its wrap-around at 2^64 are computed exactly.
\* ------------------------------------------------------------------------
Base == 65536
UsecPerSec == 1000000

\* a small natural number as a uint64
U64(n) == <<n % Base, (n \div Base) % Base, 0, 0>>

\* limb k (1-based) of the multiplier 1_000_000 = 15 * 2^16 + 16960
UsecLimb(k) == IF k = 1 THEN UsecPerSec % Base
               ELSE IF k = 2 THEN UsecPerSec \div Base
               ELSE 0

Limb(e, k) == IF k >= 1 /\ k <= Len(e) THEN e[k] ELSE 0

RECURSIVE MulDigits(_, _, _)
\* limbs k..6 of e * 1_000_000, given the carry into limb k
MulDigits(e, k, carry) ==
    IF k > 6 THEN <<>>
    ELSE LET s == Limb(e, k) * UsecLimb(1) + Limb(e, k - 1) * UsecLimb(2) + carry
         IN  <<s % Base>> \o MulDigits(e, k + 1, s \div Base)

\* the exact product e * 1_000_000, six limbs
MulUsecExact(e) == MulDigits(e, 1, 0)

\* the product as Go computes it on uint64: modulo 2^64
MulUsec64(e) == SubSeq(MulUsecExact(e), 1, 4)

RECURSIVE LeqFrom(_, _, _)
LeqFrom(a, b, k) ==
    IF k = 0 THEN TRUE
    ELSE IF Limb(a, k) # Limb(b, k) THEN Limb(a, k) < Limb(b, k)
    ELSE LeqFrom(a, b, k - 1)

\* a <= b on limb sequences (of any lengths)
LeqU64(a, b) == LeqFrom(a, b, IF Len(a) > Len(b) THEN Len(a) ELSE Len(b))

\* ------------------------------------------------------------------------
\* Values
\* ------------------------------------------------------------------------
Threads == {"t1", "t2"}
NoThread == "none"
\* no response at hand; a response chain id c is held as <<c>>
NoChain == <<>>

\* time.Duration values, in nanoseconds
Step == 500000000

VmStatusExecuted == "executed"

\* one method of each shape: GetCurrencies (like GetMetadata, GetAccount,
\* GetTransactions and GetEvents: `if !ok { return nil, err }`),
\* GetAccountTransaction (the same, used by WaitForTransaction),
\* GetAccountTransactions (`if err != nil`) and Submit (the error alone)
Methods == {"get_currencies", "get_account_transaction",
            "get_account_transactions", "submit"}
GetAccountTransactionMethod == "get_account_transaction"

\* errors; NoErr is Go's nil error
NoErr == "nil"
ErrTransport == "transport error"
ErrChainID == "chain id mismatch error"
ErrStaleVersion == "stale response error: version"
ErrStaleTimestamp == "stale response error: timestamp(usec)"
ErrRemote == "response error"
ErrUnmarshal == "unmarshal error"
ErrSignature == "found transaction, but signature does not match"
ErrExecution == "transaction execution failed"
ErrExpired == "transaction expired"
ErrTimeout == "transaction not found within timeout period"

\* LedgerState{TimestampUsec, Version}
LedgerState(ts, ver) == [TimestampUsec |-> ts, Version |-> ver]
ZeroState == LedgerState(0, 0)

\* what the server may report
ChainIDs == {2}
ResponseChainIDs == {2, 4}
Timestamps == {k * UsecPerSec : k \in 0..MaxSec}
Versions == 0..MaxVersion
LedgerStates == {LedgerState(ts, ver) : ts \in Timestamps, ver \in Versions}

\* a *Transaction: nil, or the two fields WaitForTransaction reads
NilTxn == [present |-> FALSE, Signature |-> "", VmStatus |-> ""]
Txn(sig, status) == [present |-> TRUE, Signature |-> sig, VmStatus |-> status]
Signatures == {"abc", "xyz"}
VmStatuses == {VmStatusExecuted, "move_abort"}
Transactions == {Txn(sig, st) : sig \in Signatures, st \in VmStatuses}

\* the part of a response read after the guard: its Error and its Result
\* (null, not decodable, or a value)
Bodies == {[kind |-> "error", txn |-> NilTxn],
           [kind |-> "null", txn |-> NilTxn],
           [kind |-> "undecodable", txn |-> NilTxn]}
          \cup {[kind |-> "value", txn |-> x] : x \in Transactions}

\* resp.Error as call knows it: not read yet, nil, or set
ErrorUnread == "unread"
ErrorNil == "nil"
ErrorSet == "set"
\* the bodies a response may turn out to have when resp.Error is read
BodiesOf(respError) ==
    IF respError = ErrorSet THEN {b \in Bodies : b.kind = "error"}
    ELSE IF respError = ErrorNil THEN {b \in Bodies : b.kind # "error"}
    ELSE Bodies

\* arguments of WaitForTransaction
ExpectedSignatures == {"abc"}
\* 18446744073710 = 2^64 \div 1_000_000 + 1: its product wraps to 448384
ExpirationWrap == <<46574, 63392, 4294, 0>>
ExpirationTimes == {U64(1), ExpirationWrap}
\* none or a negative one, one nanosecond, and MaxPolls polling steps
Timeouts == {-1, 0, 1, MaxPolls * Step}

\* ------------------------------------------------------------------------
\* Pure parts of the code
\* ------------------------------------------------------------------------
\* byte(resp.LibraChainID)
ByteOf(x) == x % 256

\* a validateChainID that accepts every chain id
validateChainIDAny(configured, chain) == NoErr

\* client.validateChainID
validateChainID(configured, chain) ==
    IF configured # chain THEN ErrChainID ELSE NoErr

\* a validateAndUpdateState without the timestamp comparison
validateStateNoTimestamp(lst, state) ==
    IF lst.Version = state.Version /\ lst.TimestampUsec = state.TimestampUsec
    THEN [err |-> NoErr, write |-> FALSE]
    ELSE IF lst.Version > state.Version
    THEN [err |-> ErrStaleVersion, write |-> FALSE]
    ELSE [err |-> NoErr, write |-> TRUE]

\* a validateAndUpdateState without the equality case, comparing with >=
validateStateNoEqual(lst, state) ==
    IF lst.Version >= state.Version
    THEN [err |-> ErrStaleVersion, write |-> FALSE]
    ELSE IF lst.TimestampUsec >= state.TimestampUsec
    THEN [err |-> ErrStaleTimestamp, write |-> FALSE]
    ELSE [err |-> NoErr, write |-> TRUE]

\* a validateAndUpdateState that compares the timestamps before the versions
validateStateTimestampFirst(lst, state) ==
    IF lst.Version = state.Version /\ lst.TimestampUsec = state.TimestampUsec
    THEN [err |-> NoErr, write |-> FALSE]
    ELSE IF lst.TimestampUsec > state.TimestampUsec
    THEN [err |-> ErrStaleTimestamp, write |-> FALSE]
    ELSE IF lst.Version > state.Version
    THEN [err |-> ErrStaleVersion, write |-> FALSE]
    ELSE [err |-> NoErr, write |-> TRUE]

\* the decision of client.validateAndUpdateState on the state it read:
\* the error it returns and whether it goes on to store the candidate
validateState(lst, state) ==
    IF lst.Version = state.Version /\ lst.TimestampUsec = state.TimestampUsec
    THEN [err |-> NoErr, write |-> FALSE]
    ELSE IF lst.Version > state.Version
    THEN [err |-> ErrStaleVersion, write |-> FALSE]
    ELSE IF lst.TimestampUsec > state.TimestampUsec
    THEN [err |-> ErrStaleTimestamp, write |-> FALSE]
    ELSE [err |-> NoErr, write |-> TRUE]

\* Response.UnmarshalResult: false on a null result, an error on a result
\* that does not decode
UnmarshalResult(body) ==
    IF body.kind = "null" THEN [ok |-> FALSE, err |-> NoErr, txn |-> NilTxn]
    ELSE IF body.kind = "undecodable"
    THEN [ok |-> FALSE, err |-> ErrUnmarshal, txn |-> NilTxn]
    ELSE [ok |-> TRUE, err |-> NoErr, txn |-> body.txn]

\* the tail of client.call, after both checks passed
callResult(body) ==
    IF body.kind = "error"
    THEN [ok |-> FALSE, err |-> ErrRemote, txn |-> NilTxn]
    ELSE UnmarshalResult(body)

\* methods of which GetAccountTransactions drops the error of call
methodReturnDropErr(method, ok, err, txn) ==
    IF method = "get_account_transactions"
    THEN [txn |-> txn, err |-> NoErr]
    ELSE IF ~ok THEN [txn |-> NilTxn, err |-> err]
    ELSE [txn |-> IF method = "submit" THEN NilTxn ELSE txn, err |-> NoErr]

\* what a method of the client returns from call's (ok, err) and the decoded
\* value: (nil, err) unless ok
methodReturn(method, ok, err, txn) ==
    IF method = "get_account_transactions"
    THEN IF err # NoErr THEN [txn |-> NilTxn, err |-> err]
         ELSE [txn |-> txn, err |-> NoErr]
    ELSE IF ~ok THEN [txn |-> NilTxn, err |-> err]
    ELSE [txn |-> IF method = "submit" THEN NilTxn ELSE txn, err |-> NoErr]

\* the loop condition of WaitForTransaction
loopCond(i, timeout) == i < timeout

\* an afterLookup without the execution status check
afterLookupNoStatus(txn, err, signature) ==
    IF err # NoErr THEN [done |-> TRUE, txn |-> NilTxn, err |-> err]
    ELSE IF txn.present
    THEN IF txn.Signature # signature
         THEN [done |-> TRUE, txn |-> NilTxn, err |-> ErrSignature]
         ELSE [done |-> TRUE, txn |-> txn, err |-> NoErr]
    ELSE [done |-> FALSE, txn |-> NilTxn, err |-> NoErr]

\* an afterLookup that keeps polling when the transaction found has failed
afterLookupRetryFailed(txn, err, signature) ==
    IF err # NoErr THEN [done |-> TRUE, txn |-> NilTxn, err |-> err]
    ELSE IF txn.present
    THEN IF txn.Signature # signature
         THEN [done |-> TRUE, txn |-> NilTxn, err |-> ErrSignature]
         ELSE IF txn.VmStatus # VmStatusExecuted
         THEN [done |-> FALSE, txn |-> NilTxn, err |-> NoErr]
         ELSE [done |-> TRUE, txn |-> txn, err |-> NoErr]
    ELSE [done |-> FALSE, txn |-> NilTxn, err |-> NoErr]

\* an afterLookup that checks the execution status before the signature
afterLookupStatusFirst(txn, err, signature) ==
    IF err # NoErr THEN [done |-> TRUE, txn |-> NilTxn, err |-> err]
    ELSE IF txn.present
    THEN IF txn.VmStatus # VmStatusExecuted
         THEN [done |-> TRUE, txn |-> NilTxn, err |-> ErrExecution]
         ELSE IF txn.Signature # signature
         THEN [done |-> TRUE, txn |-> NilTxn, err |-> ErrSignature]
         ELSE [done |-> TRUE, txn |-> txn, err |-> NoErr]
    ELSE [done |-> FALSE, txn |-> NilTxn, err |-> NoErr]

\* an afterLookup that polls on when the lookup failed
afterLookupIgnoreErr(txn, err, signature) ==
    IF err = NoErr /\ txn.present
    THEN IF txn.Signature # signature
         THEN [done |-> TRUE, txn |-> NilTxn, err |-> ErrSignature]
         ELSE IF txn.VmStatus # VmStatusExecuted
         THEN [done |-> TRUE, txn |-> NilTxn, err |-> ErrExecution]
         ELSE [done |-> TRUE, txn |-> txn, err |-> NoErr]
    ELSE [done |-> FALSE, txn |-> NilTxn, err |-> NoErr]

\* an afterLookup that goes on to the expiration test when the transaction
\* found has another signature
afterLookupRetryMismatch(txn, err, signature) ==
    IF err # NoErr THEN [done |-> TRUE, txn |-> NilTxn, err |-> err]
    ELSE IF txn.present
    THEN IF txn.Signature # signature
         THEN [done |-> FALSE, txn |-> NilTxn, err |-> NoErr]
         ELSE IF txn.VmStatus # VmStatusExecuted
         THEN [done |-> TRUE, txn |-> NilTxn, err |-> ErrExecution]
         ELSE [done |-> TRUE, txn |-> txn, err |-> NoErr]
    ELSE [done |-> FALSE, txn |-> NilTxn, err |-> NoErr]

\* WaitForTransaction after a lookup returned (txn, err): either it returns
\* (done) or it goes on to the expiration check
afterLookup(txn, err, signature) ==
    IF err # NoErr THEN [done |-> TRUE, txn |-> NilTxn, err |-> err]
    ELSE IF txn.present
    THEN IF txn.Signature # signature
         THEN [done |-> TRUE, txn |-> NilTxn, err |-> ErrSignature]
         ELSE IF txn.VmStatus # VmStatusExecuted
         THEN [done |-> TRUE, txn |-> NilTxn, err |-> ErrExecution]
         ELSE [done |-> TRUE, txn |-> txn, err |-> NoErr]
    ELSE [done |-> FALSE, txn |-> NilTxn, err |-> NoErr]

\* an expiration test with < for <=
isExpiredStrict(expirationTimeSec, timestampUsec) ==
    /\ LeqU64(MulUsec64(expirationTimeSec), U64(timestampUsec))
    /\ MulUsec64(expirationTimeSec) # U64(timestampUsec)

\* expirationTimeSec*1_000_000 <= c.LastResponseLedgerState().TimestampUsec
isExpired(expirationTimeSec, timestampUsec) ==
    LeqU64(MulUsec64(expirationTimeSec), U64(timestampUsec))

\* ------------------------------------------------------------------------
\* State
\* ------------------------------------------------------------------------
VARIABLES
    chainID,   \* client.chainID
    last,      \* client.last
    mux,       \* client.mux: the goroutines holding it for reading, and the writer
    th,        \* per goroutine: the operation it runs and where it is in it
    hist       \* history, kept when hist.on: the state LastResponseLedgerState
               \* returned last to the user, and whether the user has called
               \* UpdateLastResponseLedgerState

vars == <<chainID, last, mux, th, hist>>

\* a goroutine outside every operation of the client
Idle == [op |-> "idle", pc |-> "idle", ctx |-> "none", method |-> "none",
         state |-> ZeroState, snap |-> ZeroState,
         signature |-> "", exp |-> U64(0), timeout |-> 0, i |-> 0, lookups |-> 0,
         txn |-> NilTxn, err |-> NoErr,
         chain |-> NoChain, respError |-> ErrorUnread,
         seen |-> NilTxn, expiredSeen |-> FALSE]
\* fields of a goroutine's record: op, the operation of the interface it runs;
\* pc, its position; ctx, the caller of the lock-protected read or write;
\* chain and state, the metadata of the response at hand (state is also the
\* argument of UpdateLastResponseLedgerState), respError its Error; snap, the copy of c.last it
\* read; signature, exp, timeout, i, the arguments and the counter of
\* WaitForTransaction; txn and err, the values returned last.
\* History of a wait: lookups, the lookups made; seen, the transaction a
\* lookup found; expiredSeen, whether a poll read a ledger timestamp at or
\* past expirationTimeSec * 1_000_000 (the exact product).

\* NewWithJsonRpcClient: &client{chainID: chainID, rpc: rpc}
Init ==
    /\ chainID \in ChainIDs
    /\ last = ZeroState
    /\ mux = [readers |-> {}, writer |-> NoThread]
    /\ th = [t \in Threads |-> Idle]
    /\ hist = [on |-> FALSE, observed |-> ZeroState, updated |-> FALSE]

Goto(t, r) == th' = [th EXCEPT ![t] = r]

\* the operation of goroutine t returns (txn, err) to its caller
Done(t, txn, err) ==
    Goto(t, [th[t] EXCEPT !.pc = "done", !.ctx = "none", !.state = ZeroState,
                          !.snap = ZeroState, !.chain = NoChain,
                          !.respError = ErrorUnread,
                          !.txn = txn, !.err = err])

\* client.call returns (ok, err) with the decoded value txn: the method that
\* made the call returns to its caller, which is the user or WaitForTransaction
CallReturn(t, ok, err, txn) ==
    LET r == methodReturn(th[t].method, ok, err, txn)
    IN  IF th[t].op = "wait"
        THEN Goto(t, [th[t] EXCEPT !.pc = "afterLookup", !.ctx = "none",
                                   !.method = "none", !.state = ZeroState,
                                   !.snap = ZeroState, !.chain = NoChain,
                                   !.respError = ErrorUnread,
                                   !.txn = r.txn, !.err = r.err,
                                   !.seen = IF r.txn.present THEN r.txn ELSE @])
        ELSE Done(t, r.txn, r.err)

\* ---- entry points of the Client interface --------------------------------
\* a method that makes one RPC call
StartCall(t) ==
    /\ th[t].pc = "idle"
    /\ \E m \in Methods : Goto(t, [Idle EXCEPT !.op = "call", !.pc = "rpc", !.method = m])
    /\ UNCHANGED <<chainID, last, mux, hist>>

\* WaitForTransaction(address, seq, signature, expirationTimeSec, timeout)
StartWait(t) ==
    /\ th[t].pc = "idle"
    /\ \E sig \in ExpectedSignatures, e \in ExpirationTimes, tmo \in Timeouts :
          Goto(t, [Idle EXCEPT !.op = "wait", !.pc = "loop", !.signature = sig,
                               !.exp = e, !.timeout = tmo, !.i = 0])
    /\ UNCHANGED <<chainID, last, mux, hist>>

\* LastResponseLedgerState()
StartLast(t) ==
    /\ th[t].pc = "idle"
    /\ Goto(t, [Idle EXCEPT !.op = "last", !.pc = "rlock", !.ctx = "public"])
    /\ UNCHANGED <<chainID, last, mux, hist>>

\* UpdateLastResponseLedgerState(state)
StartUpdate(t) ==
    /\ th[t].pc = "idle"
    /\ \E s \in LedgerStates :
          Goto(t, [Idle EXCEPT !.op = "update", !.pc = "lock", !.ctx = "public",
                               !.state = s])
    /\ hist' = IF hist.on THEN [hist EXCEPT !.updated = TRUE] ELSE hist
    /\ UNCHANGED <<chainID, last, mux>>

\* the caller takes the result
Return(t) ==
    /\ th[t].pc = "done"
    /\ Goto(t, Idle)
    /\ UNCHANGED <<chainID, last, mux, hist>>

\* ---- client.call ---------------------------------------------------------
\* a call that clears the stored ledger state when c.rpc.Call fails
RpcCallResetOnFailure(t) ==
    /\ th[t].pc = "rpc"
    /\ \/ CallReturn(t, FALSE, ErrTransport, NilTxn) /\ last' = ZeroState
       \/ /\ \E chain \in ResponseChainIDs, s \in LedgerStates :
                Goto(t, [th[t] EXCEPT !.pc = "chain", !.chain = <<chain>>, !.state = s])
          /\ last' = last
    /\ UNCHANGED <<chainID, mux, hist>>

\* c.rpc.Call fails, or returns a response with its chain id and ledger state
RpcCall(t) ==
    /\ th[t].pc = "rpc"
    /\ \/ CallReturn(t, FALSE, ErrTransport, NilTxn)
       \/ \E chain \in ResponseChainIDs, s \in LedgerStates :
             Goto(t, [th[t] EXCEPT !.pc = "chain", !.chain = <<chain>>, !.state = s])
    /\ UNCHANGED <<chainID, last, mux, hist>>

\* c.rpc.Call returns a response of which the Error is known as well
RpcCallWhole(t) ==
    /\ th[t].pc = "rpc"
    /\ \E chain \in ResponseChainIDs, s \in LedgerStates, e \in {ErrorNil, ErrorSet} :
          Goto(t, [th[t] EXCEPT !.pc = "chain", !.chain = <<chain>>, !.state = s,
                                !.respError = e])
    /\ UNCHANGED <<chainID, last, mux, hist>>

\* a call that returns resp.Error before it validates the chain id
ValidateChainIDErrorFirst(t) ==
    /\ th[t].pc = "chain"
    /\ LET e == validateChainID(chainID, ByteOf(th[t].chain[1]))
       IN  IF th[t].respError = ErrorSet
           THEN CallReturn(t, FALSE, ErrRemote, NilTxn)
           ELSE IF e # NoErr
           THEN CallReturn(t, FALSE, e, NilTxn)
           ELSE Goto(t, [th[t] EXCEPT !.pc = "rlock", !.ctx = "validate",
                                      !.chain = NoChain])
    /\ UNCHANGED <<chainID, last, mux, hist>>

\* c.validateChainID(byte(resp.LibraChainID)), then on to validateAndUpdateState
ValidateChainID(t) ==
    /\ th[t].pc = "chain"
    /\ LET e == validateChainID(chainID, ByteOf(th[t].chain[1]))
       IN  IF e # NoErr
           THEN CallReturn(t, FALSE, e, NilTxn)
           ELSE Goto(t, [th[t] EXCEPT !.pc = "rlock", !.ctx = "validate",
                                      !.chain = NoChain])
    /\ UNCHANGED <<chainID, last, mux, hist>>

\* ---- LastResponseLedgerState: c.mux.RLock(); return c.last ---------------
\* an RLock that does not wait for the writer
RLockNoWait(t) ==
    /\ th[t].pc = "rlock"
    /\ mux' = [mux EXCEPT !.readers = @ \cup {t}]
    /\ Goto(t, [th[t] EXCEPT !.pc = "readTs"])
    /\ UNCHANGED <<chainID, last, hist>>

RLock(t) ==
    /\ th[t].pc = "rlock"
    /\ mux.writer = NoThread
    /\ mux' = [mux EXCEPT !.readers = @ \cup {t}]
    /\ Goto(t, [th[t] EXCEPT !.pc = "readTs"])
    /\ UNCHANGED <<chainID, last, hist>>

ReadTimestampUsec(t) ==
    /\ th[t].pc = "readTs"
    /\ Goto(t, [th[t] EXCEPT !.pc = "readVer", !.snap.TimestampUsec = last.TimestampUsec])
    /\ UNCHANGED <<chainID, last, mux, hist>>

ReadVersion(t) ==
    /\ th[t].pc = "readVer"
    /\ Goto(t, [th[t] EXCEPT !.pc = "runlock", !.snap.Version = last.Version])
    /\ UNCHANGED <<chainID, last, mux, hist>>

\* RUnlock, returning to the user
LastReturn(t) ==
    /\ th[t].pc = "runlock" /\ th[t].ctx = "public"
    /\ mux' = [mux EXCEPT !.readers = @ \ {t}]
    /\ Goto(t, [th[t] EXCEPT !.pc = "done", !.ctx = "none"])
    /\ hist' = IF hist.on THEN [hist EXCEPT !.observed = th[t].snap] ELSE hist
    /\ UNCHANGED <<chainID, last>>

\* RUnlock, returning to validateAndUpdateState, which compares
ValidateDecide(t) ==
    /\ th[t].pc = "runlock" /\ th[t].ctx = "validate"
    /\ mux' = [mux EXCEPT !.readers = @ \ {t}]
    /\ LET d == validateState(th[t].snap, th[t].state)
       IN  IF d.err # NoErr THEN CallReturn(t, FALSE, d.err, NilTxn)
           ELSE IF d.write THEN Goto(t, [th[t] EXCEPT !.pc = "lock", !.snap = ZeroState])
           ELSE Goto(t, [th[t] EXCEPT !.pc = "finish", !.ctx = "none"])
    /\ UNCHANGED <<chainID, last, hist>>

\* RUnlock, returning to WaitForTransaction, which tests expiration and sleeps
ExpireCheck(t) ==
    /\ th[t].pc = "runlock" /\ th[t].ctx = "expire"
    /\ mux' = [mux EXCEPT !.readers = @ \ {t}]
    /\ LET reached == LeqU64(MulUsecExact(th[t].exp), U64(last.TimestampUsec))
           me == [th[t] EXCEPT !.expiredSeen = @ \/ reached]
       IN  IF isExpired(th[t].exp, th[t].snap.TimestampUsec)
           THEN Goto(t, [me EXCEPT !.pc = "done", !.ctx = "none", !.snap = ZeroState,
                                   !.txn = NilTxn, !.err = ErrExpired])
           ELSE Goto(t, [me EXCEPT !.pc = "loop", !.ctx = "none", !.snap = ZeroState,
                                   !.i = @ + Step])
    /\ UNCHANGED <<chainID, last, hist>>

\* ---- UpdateLastResponseLedgerState: c.mux.Lock(); c.last = state ---------
Lock(t) ==
    /\ th[t].pc = "lock"
    /\ mux.writer = NoThread /\ mux.readers = {}
    /\ mux' = [mux EXCEPT !.writer = t]
    /\ Goto(t, [th[t] EXCEPT !.pc = "writeTs"])
    /\ UNCHANGED <<chainID, last, hist>>

WriteTimestampUsec(t) ==
    /\ th[t].pc = "writeTs"
    /\ last' = [last EXCEPT !.TimestampUsec = th[t].state.TimestampUsec]
    /\ Goto(t, [th[t] EXCEPT !.pc = "writeVer"])
    /\ UNCHANGED <<chainID, mux, hist>>

WriteVersion(t) ==
    /\ th[t].pc = "writeVer"
    /\ last' = [last EXCEPT !.Version = th[t].state.Version]
    /\ Goto(t, [th[t] EXCEPT !.pc = "unlock"])
    /\ UNCHANGED <<chainID, mux, hist>>

\* Unlock, returning to the user
UpdateReturn(t) ==
    /\ th[t].pc = "unlock" /\ th[t].ctx = "public"
    /\ mux' = [mux EXCEPT !.writer = NoThread]
    /\ Done(t, NilTxn, NoErr)
    /\ UNCHANGED <<chainID, last, hist>>

\* Unlock, returning to validateAndUpdateState and from it to call
ValidateReturn(t) ==
    /\ th[t].pc = "unlock" /\ th[t].ctx = "validate"
    /\ mux' = [mux EXCEPT !.writer = NoThread]
    /\ Goto(t, [th[t] EXCEPT !.pc = "finish", !.ctx = "none"])
    /\ UNCHANGED <<chainID, last, hist>>

\* call, after both checks: resp.Error, then resp.UnmarshalResult(ret)
Finish(t) ==
    /\ th[t].pc = "finish"
    /\ \E body \in BodiesOf(th[t].respError) :
          LET r == callResult(body) IN CallReturn(t, r.ok, r.err, r.txn)
    /\ UNCHANGED <<chainID, last, mux, hist>>

\* ---- WaitForTransaction --------------------------------------------------
\* for i := 0; i < timeout; ...: the next lookup, or the timeout error
WaitLoop(t) ==
    /\ th[t].pc = "loop"
    /\ IF loopCond(th[t].i, th[t].timeout)
       THEN Goto(t, [th[t] EXCEPT !.pc = "rpc", !.method = GetAccountTransactionMethod,
                                  !.lookups = @ + 1])
       ELSE Done(t, NilTxn, ErrTimeout)
    /\ UNCHANGED <<chainID, last, mux, hist>>

\* the lookup returned (txn, err)
WaitAfterLookup(t) ==
    /\ th[t].pc = "afterLookup"
    /\ LET r == afterLookup(th[t].txn, th[t].err, th[t].signature)
       IN  IF r.done THEN Done(t, r.txn, r.err)
           ELSE Goto(t, [th[t] EXCEPT !.pc = "rlock", !.ctx = "expire",
                                      !.txn = NilTxn, !.err = NoErr])
    /\ UNCHANGED <<chainID, last, mux, hist>>

\* ------------------------------------------------------------------------
\* Specifications
\* ------------------------------------------------------------------------
\* one step of goroutine t, the public setter left out
RpcStep(t) ==
    \/ StartCall(t) \/ StartWait(t) \/ StartLast(t) \/ Return(t)
    \/ RpcCall(t) \/ ValidateChainID(t) \/ RLock(t) \/ ReadTimestampUsec(t) \/ ReadVersion(t)
    \/ LastReturn(t) \/ ValidateDecide(t) \/ ExpireCheck(t)
    \/ Lock(t) \/ WriteTimestampUsec(t) \/ WriteVersion(t)
    \/ ValidateReturn(t) \/ Finish(t) \/ WaitLoop(t) \/ WaitAfterLookup(t)

Step1(t) == RpcStep(t) \/ StartUpdate(t) \/ UpdateReturn(t)

\* goroutines using one client concurrently, through the whole interface
Next == \E t \in Threads : Step1(t)
Spec == Init /\ [][Next]_vars

\* a single goroutine using the client
MainThread == CHOOSE t \in Threads : TRUE
InitSeq ==
    /\ chainID \in ChainIDs
    /\ last = ZeroState
    /\ mux = [readers |-> {}, writer |-> NoThread]
    /\ th = [t \in Threads |-> Idle]
    /\ hist = [on |-> TRUE, observed |-> ZeroState, updated |-> FALSE]
NextSeq == Step1(MainThread)
SpecSeq == InitSeq /\ [][NextSeq]_vars
\* the same, the goroutine always taking its next step: c.rpc.Call returns,
\* time.Sleep ends, and the mutex it alone uses is free
FairSeq == SpecSeq /\ WF_vars(NextSeq)

\* a single goroutine, the responses it receives being either read field by
\* field or known whole, their Error included, on receipt
NextResp == NextSeq \/ RpcCallWhole(MainThread)
SpecResp == Init /\ [][NextResp]_vars

\* goroutines that only issue RPC calls, waits and reads of the ledger state
NextRpc == \E t \in Threads : RpcStep(t)
SpecRpc == Init /\ [][NextRpc]_vars

\* one goroutine using the whole interface while another issues RPC calls
OtherThread == CHOOSE t \in Threads : t # MainThread
CallStep(t) ==
    \/ StartCall(t) \/ Return(t) \/ RpcCall(t) \/ ValidateChainID(t)
    \/ RLock(t) \/ ReadTimestampUsec(t) \/ ReadVersion(t) \/ ValidateDecide(t)
    \/ Lock(t) \/ WriteTimestampUsec(t) \/ WriteVersion(t) \/ ValidateReturn(t)
    \/ Finish(t)
NextBg == Step1(MainThread) \/ CallStep(OtherThread)
SpecBg == Init /\ [][NextBg]_vars

\* one goroutine issuing RPC calls and reading the ledger state while another
\* issues RPC calls, UpdateLastResponseLedgerState never called by the user;
\* the states LastResponseLedgerState returns are recorded
ObsStep(t) == CallStep(t) \/ StartLast(t) \/ LastReturn(t)
NextObs == ObsStep(MainThread) \/ CallStep(OtherThread)
SpecObs == InitSeq /\ [][NextObs]_vars

\* ------------------------------------------------------------------------
\* Properties
\* ------------------------------------------------------------------------
\* a has version and timestamp at least those of b
GeqState(a, b) == a.Version >= b.Version /\ a.TimestampUsec >= b.TimestampUsec

\* goroutine t is about to leave LastResponseLedgerState inside
\* validateAndUpdateState: it holds the read lock and compares next
AtCompare(t) == th[t].pc = "runlock" /\ th[t].ctx = "validate"

\* goroutine t's WaitForTransaction has returned
WaitDone(t) == th[t].op = "wait" /\ th[t].pc = "done"

\* C1: with a single goroutine, a write made by validateAndUpdateState never
\* lowers the stored version or timestamp, and a candidate whose version or
\* timestamp is below the stored one is rejected with a stale-response error,
\* the call returning without touching the stored state.
C1_SequentialGuard ==
    [][\A t \in Threads :
          /\ (th[t].ctx = "validate" /\ last' # last) => GeqState(last', last)
          /\ ( /\ AtCompare(t) /\ th'[t] # th[t]
               /\ \/ th[t].state.Version < last.Version
                  \/ th[t].state.TimestampUsec < last.TimestampUsec )
             => /\ th'[t].err \in {ErrStaleVersion, ErrStaleTimestamp}
                /\ th'[t].pc \in {"done", "afterLookup"}
                /\ last' = last]_vars

\* C1 witness: after accepted updates moved the state to {1s, 1}, a call was
\* rejected for its stale timestamp
C1_Witness ==
    \E t \in Threads :
        /\ th[t].op = "call" /\ th[t].pc = "done" /\ th[t].err = ErrStaleTimestamp
        /\ last = LedgerState(UsecPerSec, 1)

\* C2: with goroutines issuing RPC calls concurrently, no step lowers the
\* stored version or the stored timestamp.
C2_NeverRewinds == [][GeqState(last', last)]_vars

\* C3: a WaitForTransaction that has returned either returned the transaction
\* a lookup found, with the expected signature and status "executed", and no
\* error, or returned an error and no transaction.
C3_SuccessOnlyExecutedMatch ==
    \A t \in Threads :
        WaitDone(t) =>
            /\ (th[t].err = NoErr) <=> th[t].txn.present
            /\ th[t].err = NoErr =>
                  /\ th[t].seen.present /\ th[t].txn = th[t].seen
                  /\ th[t].seen.Signature = th[t].signature
                  /\ th[t].seen.VmStatus = VmStatusExecuted

\* C3 witness: a wait returned a transaction
C3_Witness ==
    \E t \in Threads : WaitDone(t) /\ th[t].err = NoErr /\ th[t].txn.present

\* C4: when a poll found no transaction and the stored timestamp it reads is
\* at or past expirationTimeSec * 1_000_000, the wait returns the expired
\* error on that poll.
C4_ExpiredAtBoundary ==
    [][\A t \in Threads :
          ( /\ th[t].pc = "runlock" /\ th[t].ctx = "expire" /\ th'[t] # th[t]
            /\ ~th[t].seen.present
            /\ LeqU64(MulUsecExact(th[t].exp), U64(last.TimestampUsec)) )
          => /\ th'[t].pc = "done" /\ th'[t].err = ErrExpired
             /\ ~th'[t].txn.present]_vars

\* C4 witness: expiration 1 s, timeout of two steps; the second poll read the
\* timestamp 1_000_000 and the wait returned expired, not the timeout
C4_Witness ==
    \E t \in Threads :
        /\ WaitDone(t) /\ th[t].err = ErrExpired
        /\ th[t].exp = U64(1) /\ last.TimestampUsec = UsecPerSec
        /\ th[t].lookups = 2 /\ th[t].i = Step /\ th[t].i < th[t].timeout

\* C5: a wait that returned the timeout error found no transaction in any of
\* its polls and read in none of them a timestamp at or past the expiration.
C5_TimedOutOnlyIfNothingSeen ==
    \A t \in Threads :
        (WaitDone(t) /\ th[t].err = ErrTimeout) =>
            ~th[t].seen.present /\ ~th[t].expiredSeen

\* C5 witness: a wait timed out after two polls
C5_Witness ==
    \E t \in Threads : WaitDone(t) /\ th[t].err = ErrTimeout /\ th[t].lookups = 2

\* C6: a response whose chain id differs from the client's makes the call
\* return the chain id mismatch error at once, before the stored state is
\* read for comparison, whatever ledger state the response carries; the
\* stored state is not changed.
C6_ChainMismatchFirst ==
    [][\A t \in Threads :
          (th[t].pc = "chain" /\ th[t].chain[1] # chainID /\ th'[t] # th[t])
          => /\ th'[t].err = ErrChainID /\ ~th'[t].txn.present
             /\ th'[t].pc \in {"done", "afterLookup"}
             /\ last' = last]_vars

\* C6 witness: a call failed with the mismatch error while a state was stored
C6_Witness ==
    \E t \in Threads :
        /\ th[t].op = "call" /\ th[t].pc = "done" /\ th[t].err = ErrChainID
        /\ last = LedgerState(UsecPerSec, 1)

\* C7: a candidate equal to the stored state in both fields is accepted:
\* validateAndUpdateState returns nil without writing, and the stored state
\* stays as it was.
C7_EqualIsNoop ==
    [][\A t \in Threads :
          (AtCompare(t) /\ th[t].state = last /\ th'[t] # th[t])
          => /\ th'[t].pc = "finish" /\ th'[t].err = NoErr
             /\ last' = last]_vars

\* C7 witness: a non-zero state was offered again and accepted without a write
C7_Witness ==
    \E t \in Threads :
        /\ th[t].pc = "finish" /\ th[t].state = th[t].snap
        /\ th[t].state = LedgerState(UsecPerSec, 1) /\ last = th[t].state

\* C8: a wait that found a transaction with another signature than the
\* expected one returned the signature error, whatever the status.
C8_SignatureBeforeStatus ==
    \A t \in Threads :
        (WaitDone(t) /\ th[t].seen.present /\ th[t].seen.Signature # th[t].signature)
        => th[t].err = ErrSignature /\ ~th[t].txn.present

\* C8 witness: the transaction found had another signature and had failed
C8_Witness ==
    \E t \in Threads :
        /\ WaitDone(t) /\ th[t].err = ErrSignature
        /\ th[t].seen.Signature = "xyz" /\ th[t].seen.VmStatus = "move_abort"

\* C9: when a lookup of a wait returns an error, the wait returns that error
\* in its next step, without another lookup.
C9_LookupErrorIsFatal ==
    [][\A t \in Threads :
          (th[t].pc = "afterLookup" /\ th[t].err # NoErr /\ th'[t] # th[t])
          => /\ th'[t].pc = "done" /\ th'[t].err = th[t].err
             /\ ~th'[t].txn.present
             /\ th'[t].lookups = th[t].lookups]_vars

\* C9 witness: the second lookup of a wait was rejected as stale
C9_Witness ==
    \E t \in Threads :
        WaitDone(t) /\ th[t].err = ErrStaleTimestamp /\ th[t].lookups = 2

\* the user's call of LastResponseLedgerState returns in this step
LastReturns(t) ==
    th[t].op = "last" /\ th[t].pc = "runlock" /\ th'[t].pc = "done"

\* C10: every state LastResponseLedgerState returns has version and
\* timestamp at least those of the state it returned before, here with the
\* stored state written only by validateAndUpdateState.
C10_ReturnedNeverRewinds ==
    [][\A t \in Threads :
          LastReturns(t) => GeqState(th'[t].snap, hist.observed)]_vars

\* goroutine t is inside LastResponseLedgerState, holding the read lock
Reading(t) == th[t].pc \in {"readTs", "readVer", "runlock"}

\* goroutine t is inside UpdateLastResponseLedgerState, holding the write lock
Writing(t) == th[t].pc \in {"writeTs", "writeVer", "unlock"}

\* C11: reads may overlap each other but no step changes the stored state
\* while a goroutine is inside LastResponseLedgerState; the stored state
\* changes only under the write lock and is one whole candidate when the
\* lock is released; so the pair LastResponseLedgerState returns is the pair
\* stored, never the timestamp of one write with the version of another.
C11_ReadsNeverTorn ==
    [][\A t \in Threads :
          /\ Reading(t) => (last' = last /\ mux.writer = NoThread /\ t \in mux.readers)
          /\ Writing(t) => (mux.writer = t /\ mux.readers = {})
          /\ (th[t].pc = "runlock" /\ th'[t] # th[t]) => th[t].snap = last
          /\ (th[t].pc = "unlock" /\ th'[t] # th[t]) => last = th[t].state
          /\ (mux.writer = NoThread /\ mux'.writer = NoThread) => last' = last]_vars

\* C11 witness: LastResponseLedgerState returned {1s, 1} to the user and
\* another goroutine is now in the middle of a write
C11_Witness ==
    \E t, u \in Threads :
        /\ th[t].op = "last" /\ th[t].pc = "done"
        /\ th[t].snap = LedgerState(UsecPerSec, 1)
        /\ th[u].pc = "writeVer" /\ last.Version # th[u].state.Version

\* the method running in goroutine t returns to its caller with this step
MethodReturns(t) ==
    /\ th[t].method # "none"
    /\ th'[t].pc \in {"done", "afterLookup"} /\ th'[t].pc # th[t].pc

\* C12: for every method, a step that examines a response whose chain id
\* differs from the configured one, or whose ledger state is below the stored
\* state in version or timestamp, makes the method return an error and no
\* value; and a method returns without error only from the tail of call,
\* which is entered only from the guard having accepted the response.
C12_NoResultPastGuard ==
    [][\A t \in Threads :
          /\ ( /\ th'[t] # th[t]
               /\ \/ th[t].pc = "chain" /\ th[t].chain[1] # chainID
                  \/ AtCompare(t) /\ ~GeqState(th[t].state, last) )
             => /\ MethodReturns(t)
                /\ th'[t].err \in {ErrChainID, ErrStaleVersion, ErrStaleTimestamp}
                /\ ~th'[t].txn.present
          /\ (MethodReturns(t) /\ th'[t].err = NoErr) => th[t].pc = "finish"
          /\ (th'[t].pc = "finish" /\ th[t].pc # "finish")
             => /\ th[t].ctx = "validate"
                /\ \/ AtCompare(t) /\ GeqState(th[t].state, last)
                   \/ th[t].pc = "unlock" /\ last = th[t].state]_vars

\* C12 witness: GetAccountTransactions returned the stale version error and
\* no value for a response below the stored state
C12_Witness ==
    \E t \in Threads :
        /\ th[t].op = "call" /\ th[t].method = "get_account_transactions"
        /\ th[t].pc = "done" /\ th[t].err = ErrStaleVersion /\ ~th[t].txn.present
        /\ last.Version = 1

\* C13: with a single goroutine, validateAndUpdateState comparing candidate
\* cand with the stored state: a smaller version gives the stale version
\* error whatever the timestamp; a version not smaller with a smaller
\* timestamp gives the stale timestamp error; both leave the stored state as
\* it was; otherwise cand is accepted, and when validateAndUpdateState
\* returns nil the stored state equals cand in both fields.
C13_DecisionTable ==
    [][\A t \in Threads :
          LET cand == th[t].state
              rejected(e) == /\ MethodReturns(t) /\ th'[t].err = e
                             /\ ~th'[t].txn.present /\ last' = last
          IN  /\ (AtCompare(t) /\ th'[t] # th[t]) =>
                    /\ cand.Version < last.Version => rejected(ErrStaleVersion)
                    /\ ( /\ cand.Version >= last.Version
                         /\ cand.TimestampUsec < last.TimestampUsec )
                       => rejected(ErrStaleTimestamp)
                    /\ GeqState(cand, last) <=> th'[t].pc \in {"finish", "lock"}
                    /\ th'[t].pc \in {"finish", "lock"} => th'[t].err = NoErr
                    /\ th'[t].pc = "lock" <=> (GeqState(cand, last) /\ cand # last)
              /\ (th'[t].pc = "finish" /\ th[t].pc # "finish") => last' = cand]_vars

\* C13 witness: with {0, 1} stored, a candidate of a smaller version and a
\* timestamp not smaller was rejected for its version
C13_Witness ==
    \E t \in Threads :
        /\ th[t].op = "call" /\ th[t].pc = "done" /\ th[t].err = ErrStaleVersion
        /\ last = LedgerState(0, 1)

\* ceil(timeout / step), and 0 for a timeout that is zero or negative
CeilSteps(timeout) == IF timeout <= 0 THEN 0 ELSE (timeout - 1) \div Step + 1

\* the lookups of goroutine t's wait stay within ceil(timeout / step); a wait
\* that returned after lookups that all found nothing, on none of whose polls
\* the ledger timestamp had reached expirationTimeSec * 1_000_000, has made
\* exactly that many and returned the timeout error
LookupsBounded(t) ==
    th[t].op = "wait" =>
        /\ th[t].lookups <= CeilSteps(th[t].timeout)
        /\ ( /\ th[t].pc = "done" /\ ~th[t].seen.present /\ ~th[t].expiredSeen
             /\ th[t].err \in {NoErr, ErrTimeout, ErrExpired} )
           => /\ th[t].err = ErrTimeout /\ ~th[t].txn.present
              /\ th[t].lookups = CeilSteps(th[t].timeout)
        /\ (th[t].pc = "done" /\ th[t].timeout <= 0)
           => th[t].lookups = 0 /\ th[t].err = ErrTimeout

\* C14: with every lookup returning, a WaitForTransaction that was called
\* eventually returns; it makes at most ceil(timeout / 500ms) lookups,
\* exactly that many before the timeout error when every lookup found
\* nothing and the expiration was never reached, and none before the timeout
\* error when timeout is zero or negative.
C14_WaitTerminates ==
    /\ [](\A t \in Threads : LookupsBounded(t))
    /\ (th[MainThread].op = "wait") ~> WaitDone(MainThread)

\* C15: a WaitForTransaction that returned the expired error read, on some
\* poll, a ledger timestamp at or past the exact product
\* expirationTimeSec * 1_000_000, for every uint64 expirationTimeSec, the
\* ones whose product exceeds 2^64 - 1 included.
C15_ExpiredOnlyIfReached ==
    \A t \in Threads :
        (WaitDone(t) /\ th[t].err = ErrExpired) => th[t].expiredSeen

\* C16: a WaitForTransaction whose lookup found a transaction returned what
\* the transaction decides (the transaction, the signature error or the
\* execution error), whatever the ledger timestamp, never the expired
\* error; one that returned the expired error found nothing and made at
\* least one lookup.
C16_FoundBeforeExpired ==
    \A t \in Threads :
        WaitDone(t) =>
            /\ th[t].seen.present =>
                  th[t].err \in {NoErr, ErrSignature, ErrExecution}
            /\ th[t].err = ErrExpired =>
                  ~th[t].seen.present /\ th[t].lookups >= 1

\* C16 witness: with expiration 1 s and the ledger timestamp at 1_000_000 the
\* lookup found a failed transaction and the wait returned the execution error
C16_Witness ==
    \E t \in Threads :
        /\ WaitDone(t) /\ th[t].exp = U64(1) /\ last.TimestampUsec = UsecPerSec
        /\ th[t].seen.present /\ th[t].err = ErrExecution /\ th[t].lookups = 1

\* C17: for a response that carries a remote error: a chain id mismatch
\* returns the mismatch error and a stale ledger state the stale response
\* error, the stored state left as it was; when both checks pass, the stored
\* state equals the response's ledger state by the time call reads the
\* remote error, which it then returns; and the remote error is returned
\* from nowhere else.
C17_ChecksBeforeRemoteError ==
    [][\A t \in Threads :
          /\ (th[t].respError = ErrorSet /\ th'[t] # th[t]) =>
                /\ (th[t].pc = "chain" /\ th[t].chain[1] # chainID)
                   => /\ MethodReturns(t) /\ th'[t].err = ErrChainID
                      /\ last' = last
                /\ (AtCompare(t) /\ ~GeqState(th[t].state, last))
                   => /\ MethodReturns(t)
                      /\ th'[t].err \in {ErrStaleVersion, ErrStaleTimestamp}
                      /\ last' = last
                /\ th[t].pc = "finish"
                   => /\ MethodReturns(t) /\ th'[t].err = ErrRemote
                      /\ ~th'[t].txn.present
                      /\ last = th[t].state /\ last' = last
          /\ (MethodReturns(t) /\ th'[t].err = ErrRemote) => th[t].pc = "finish"]_vars

\* C17 witness: a response with a remote error and the ledger state {1s, 1}
\* passed both checks and was stored, and call is about to read its Error
C17_Witness ==
    \E t \in Threads :
        /\ th[t].pc = "finish" /\ th[t].respError = ErrorSet
        /\ th[t].state = LedgerState(UsecPerSec, 1) /\ th[t].snap = ZeroState
        /\ last = th[t].state

\* C18: no step changes the configured chain id; and when c.rpc.Call fails,
\* the method returns the transport error and no value, and the stored
\* ledger state stays as it was.
C18_TransportFailureFrame ==
    [][/\ chainID' = chainID
       /\ \A t \in Threads :
             (th[t].pc = "rpc" /\ th'[t] # th[t] /\ th'[t].pc # "chain")
             => /\ MethodReturns(t) /\ th'[t].err = ErrTransport
                /\ ~th'[t].txn.present
                /\ last' = last]_vars

\* C18 witness: with {1s, 1} stored, a call returned the transport error
C18_Witness ==
    \E t \in Threads :
        /\ th[t].op = "call" /\ th[t].pc = "done" /\ th[t].err = ErrTransport
        /\ ~th[t].txn.present /\ last = LedgerState(UsecPerSec, 1)

====
